---- MODULE Spec2Model ----
(***************************************************************************)
(* State-machine model of the be-ota-backend IoT gateway: the SQLite       *)
(* tables written by the MQTT dispatcher and read by the HTTP routes, the  *)
(* stable-firmware pointer log, user registration, and the firmware upload *)
(* to the object-storage bucket.                                           *)
(*                                                                         *)
(* Text that the code inspects character by character (version strings,    *)
(* file names, object keys, user names) is a sequence of one-character     *)
(* strings.  JavaScript values that are only passed through are tagged     *)
(* records [t |-> type, v |-> literal].                                    *)
(***************************************************************************)
EXTENDS Integers, Sequences, FiniteSets, TLC

VARIABLES
    clock,           \* wall clock of the host, in ticks of 1/TicksPerSec second
    stableFw,        \* table LatestStableFirmware, rows in rowid order
    sensorData,      \* table SensorData, rows in rowid order
    serialMessages,  \* table SerialMessages, rows in rowid order
    users,           \* table users, rows in rowid order
    bucket,          \* object storage: the objects held, one per name
    dbQueue,         \* statements handed to sqlite3 whose execution is still pending
    errlog,          \* what console.error has been called for, oldest first
    delivered,       \* the MQTT messages the 'message' listener has returned from
    reg,             \* POST /register requests in flight, per request slot
    upl,             \* POST /firmware-update requests in flight, per request slot
    resp,            \* what the last step handed to a caller (callback or HTTP client)
    db,              \* the sqlite3 Database object: "opening", "open" or "failed"
    tables,          \* the names of the tables that exist in data.db
    subscription,    \* what the callback of client.subscribe has reported so far
    broker           \* what the MQTT broker has done with the SUBSCRIBE packet

vars == <<clock, stableFw, sensorData, serialMessages, users, bucket, dbQueue,
          errlog, delivered, reg, upl, resp, db, tables, subscription, broker>>

----------------------------------------------------------------------------
(* Bounds of the model. *)

\* ticks per second of the modelled clock (CURRENT_TIMESTAMP keeps whole seconds)
TicksPerSec == 2
\* the firmware specification stops the clock after this many ticks
MaxFwClock == 5
\* rows the firmware specification lets LatestStableFirmware grow to
MaxFwRows == 3
\* POST /register requests that can be in flight together
MaxRegs == 2
\* POST /firmware-update requests that can be in flight together
MaxUploads == 2
\* MQTT messages the dispatcher specification delivers
MaxMsgs == 3
\* whole seconds the device-status specification lets the clock reach
MaxStatusSecs == 31
\* MQTT messages the device-status specification delivers
MaxStatusMsgs == 2
\* MQTT messages the serial-log specification delivers
MaxSerialMsgs == 12

----------------------------------------------------------------------------
(* Characters and strings. *)

Digits == {"0", "1", "2", "3", "4", "5", "6", "7", "8", "9"}

\* The JavaScript value undefined, where a string is expected.
Undefined == <<"undefined">>

\* String(x) as RegExp.prototype.test applies it to its argument.
ToStr(x) ==
    IF x = Undefined
    THEN <<"u", "n", "d", "e", "f", "i", "n", "e", "d">>
    ELSE x

\* JavaScript truthiness of a string-or-undefined value.
Truthy(x) == x # Undefined /\ x # <<>>

RECURSIVE SkipDigits(_, _)
\* The index following the longest run of \d characters of s that starts at i.
SkipDigits(s, i) ==
    IF i <= Len(s) /\ s[i] \in Digits THEN SkipDigits(s, i + 1) ELSE i

\* /^\d+\.\d+\.\d+$/.test(s) on a string s (no flags: $ is the end of input).
MatchesVersionPattern(s) ==
    LET a == SkipDigits(s, 1) IN
    /\ a > 1
    /\ a <= Len(s) /\ s[a] = "."
    /\ LET b == SkipDigits(s, a + 1) IN
       /\ b > a + 1
       /\ b <= Len(s) /\ s[b] = "."
       /\ LET c == SkipDigits(s, b + 1) IN
          /\ c > b + 1
          /\ c = Len(s) + 1

\* The same pattern without its end anchor: what /^\d+\.\d+\.\d+/ would accept.
MatchesVersionPrefix(s) ==
    LET a == SkipDigits(s, 1) IN
    /\ a > 1
    /\ a <= Len(s) /\ s[a] = "."
    /\ LET b == SkipDigits(s, a + 1) IN
       /\ b > a + 1
       /\ b <= Len(s) /\ s[b] = "."
       /\ SkipDigits(s, b + 1) > b + 1

\* The validation with the patch component optional: /^\d+\.\d+(\.\d+)?$/.
validateVersionPatchOptional(version) ==
    LET s == ToStr(version)
        a == SkipDigits(s, 1) IN
    \/ MatchesVersionPattern(s)
    \/ /\ a > 1 /\ a <= Len(s) /\ s[a] = "."
       /\ SkipDigits(s, a + 1) > a + 1
       /\ SkipDigits(s, a + 1) = Len(s) + 1

\* validateFirmwareVersion of routes/index.js.
validateFirmwareVersion(version) == MatchesVersionPattern(ToStr(version))

\* The validation with the pattern's end anchor dropped.
validateVersionUnanchored(version) == MatchesVersionPrefix(ToStr(version))

\* validateFirmwareVersion local to setLatestStableFirmwareVersion of queries.js.
queriesValidateFirmwareVersion(version) == MatchesVersionPattern(ToStr(version))

----------------------------------------------------------------------------
(* Inputs. *)

V100 == <<"1", ".", "0", ".", "0">>
V101 == <<"1", ".", "0", ".", "1">>
V1010 == <<"1", ".", "0", ".", "1", "0">>

\* Well-formed major.minor.patch strings.
ValidVersions == {V100, V101, V1010}

\* Strings the pattern must refuse, and the absent value.
InvalidVersions ==
    { <<>>,
      <<"1", ".", "0">>,
      <<"v", "1", ".", "0", ".", "0">>,
      <<"1", ".", "0", ".", "0", ".", "0">>,
      <<"1", ".", ".", "0">>,
      <<".", "0", ".", "0">>,
      <<"1", ".", "0", ".">>,
      <<"1", ".", "0", ".", "0", "\n">>,
      <<"1", ".", "0", ".", "0", " ">>,
      <<"1", "0", "0">>,
      Undefined }

VersionInputs == ValidVersions \cup InvalidVersions

----------------------------------------------------------------------------
(* The clock and SQLite's CURRENT_TIMESTAMP. *)

\* CURRENT_TIMESTAMP and strftime('%s', 'now'): the clock cut to whole seconds.
CurrentTimestamp == clock \div TicksPerSec

\* AUTOINCREMENT: one more than the largest rowid the table holds.
NextId(table) == Len(table) + 1

NoResp == [op |-> "none"]

\* JavaScript null, and the row sqlite3 hands over when a query selects nothing.
Null == "null"
NoRow == [kind |-> "undefined"]

\* The err objects the handlers pass on or build.
SqliteError == "SQLITE_ERROR"
InvalidFormat == "Invalid firmware version format. Use major.minor.patch (e.g., 1.0.2)"
SetFailed == "Failed to set latest stable firmware version"
SetOk == "Latest stable firmware version set successfully"

RegSlots == 1..MaxRegs
IdleReg == [pc |-> "idle"]

UploadSlots == 1..MaxUploads
IdleUpload == [pc |-> "idle"]

AllTables == {"SensorData", "SerialMessages", "LatestStableFirmware", "users"}

\* The running system: data.db is open with its four tables, still empty, and the
\* subscription to the topic has been acknowledged.  SpecBoot, below, starts
\* earlier, from the state app.js leaves when it has been evaluated.
Init ==
    /\ db = "open"
    /\ tables = AllTables
    /\ subscription = "subscribed"
    /\ broker = "granted"
    /\ clock = 0
    /\ stableFw = <<>>
    /\ sensorData = <<>>
    /\ serialMessages = <<>>
    /\ users = <<>>
    /\ bucket = {}
    /\ dbQueue = <<>>
    /\ errlog = <<>>
    /\ delivered = <<>>
    /\ reg = [r \in RegSlots |-> IdleReg]
    /\ upl = [u \in UploadSlots |-> IdleUpload]
    /\ resp = NoResp

----------------------------------------------------------------------------
(* The stable-firmware pointer: queries.js and its two routes. *)

\* Everything but the pointer table, the clock and the last outcome.
othersFw == <<sensorData, serialMessages, users, bucket, dbQueue, errlog,
              delivered, reg, upl, db, tables, subscription, broker>>

\* Time passes on the wall clock, up to the bound a specification sets.
Tick(maxClock) ==
    /\ clock < maxClock
    /\ clock' = clock + 1
    /\ resp' = NoResp
    /\ UNCHANGED <<stableFw, sensorData, serialMessages, users, bucket, dbQueue,
                   errlog, delivered, reg, upl, db, tables, subscription, broker>>

\* The pointer kept as one mutable row: the first set inserts it, a later one
\* updates its version and timestamp in place.
setLatestStableFirmwareVersionInPlace(table, firmwareVersion, dbErr) ==
    IF ~MatchesVersionPattern(ToStr(firmwareVersion))
    THEN [err |-> "Invalid firmware version format. Use major.minor.patch (e.g., 1.0.2)",
          result |-> "null", table |-> table]
    ELSE IF dbErr
    THEN [err |-> "Failed to set latest stable firmware version", result |-> "null",
          table |-> table]
    ELSE [err |-> "null", result |-> "Latest stable firmware version set successfully",
          table |-> IF table = <<>>
                    THEN <<[id |-> 1, firmwareVersion |-> firmwareVersion,
                            timestamp |-> clock \div TicksPerSec]>>
                    ELSE [table EXCEPT ![1] =
                            [id |-> 1, firmwareVersion |-> firmwareVersion,
                             timestamp |-> clock \div TicksPerSec]]]

\* setLatestStableFirmwareVersion(db, firmwareVersion, callback): what the callback
\* receives and the table afterwards.  dbErr: sqlite3 reports an error for the INSERT.
setLatestStableFirmwareVersion(table, firmwareVersion, dbErr) ==
    IF ~queriesValidateFirmwareVersion(firmwareVersion)
    THEN [err |-> InvalidFormat, result |-> Null, table |-> table]
    ELSE IF dbErr
    THEN [err |-> SetFailed, result |-> Null, table |-> table]
    ELSE [err |-> Null, result |-> SetOk,
          table |-> Append(table, [id |-> NextId(table),
                                   firmwareVersion |-> firmwareVersion,
                                   timestamp |-> CurrentTimestamp])]

\* A caller of the exported function, with any argument.
CallSetLatestStableFirmwareVersion ==
    \E v \in VersionInputs, dbErr \in BOOLEAN :
        LET r == setLatestStableFirmwareVersion(stableFw, v, dbErr) IN
        /\ Len(stableFw) < MaxFwRows
        /\ stableFw' = r.table
        /\ resp' = [op |-> "setLatestStableFirmwareVersion", input |-> v,
                    err |-> r.err, result |-> r.result]
        /\ UNCHANGED clock
        /\ UNCHANGED othersFw

\* GET /set-stable-latest-version?firmwareVersion=v
GetSetStableLatestVersion ==
    \E v \in VersionInputs, dbErr \in BOOLEAN :
        /\ Len(stableFw) < MaxFwRows
        /\ IF ~Truthy(v) \/ ~validateFirmwareVersion(v)
           THEN /\ resp' = [op |-> "GET /set-stable-latest-version", input |-> v,
                            status |-> 400, body |-> InvalidFormat]
                /\ UNCHANGED stableFw
           ELSE LET r == setLatestStableFirmwareVersion(stableFw, v, dbErr) IN
                /\ stableFw' = r.table
                /\ resp' = IF r.err # Null
                           THEN [op |-> "GET /set-stable-latest-version", input |-> v,
                                 status |-> 500, body |-> r.err]
                           ELSE [op |-> "GET /set-stable-latest-version", input |-> v,
                                 status |-> 200, body |-> r.result]
        /\ UNCHANGED clock
        /\ UNCHANGED othersFw

\* The rows ORDER BY timestamp DESC LIMIT 1 may select: SQL leaves the order of
\* rows with equal timestamps open, so every row with the largest one.
LatestByTimestamp(table) ==
    { i \in 1..Len(table) :
        \A j \in 1..Len(table) : table[j].timestamp <= table[i].timestamp }

\* fetchLatestStableFirmwareVersion(db, callback)
CallFetchLatestStableFirmwareVersion ==
    /\ \/ /\ stableFw = <<>>
          /\ resp' = [op |-> "fetchLatestStableFirmwareVersion", err |-> Null,
                      row |-> NoRow]
       \/ \E i \in LatestByTimestamp(stableFw) :
             resp' = [op |-> "fetchLatestStableFirmwareVersion", err |-> Null,
                      row |-> [kind |-> "row",
                               firmwareVersion |-> stableFw[i].firmwareVersion]]
       \/ resp' = [op |-> "fetchLatestStableFirmwareVersion", err |-> SqliteError,
                   row |-> Null]
    /\ UNCHANGED <<clock, stableFw>>
    /\ UNCHANGED othersFw

\* What db.get hands to the callback of fetchLatestStableFirmwareVersion, which
\* passes it on: an error, no row, or one of the rows the query may select.
fetchLatestStableFirmwareVersion(table) ==
    {[err |-> SqliteError, row |-> NoRow]}
        \cup (IF table = <<>>
              THEN {[err |-> Null, row |-> NoRow]}
              ELSE {[err |-> Null,
                     row |-> [kind |-> "row",
                              firmwareVersion |-> table[i].firmwareVersion]] :
                       i \in LatestByTimestamp(table)})

NoStableFound == "No stable firmware version found"

\* The callback with the not-found test folded into the error test:
\* if (err || !result) answers 500.
latestStableFirmwareAnswerNotFoundAsError(err, result) ==
    IF err # Null \/ result.kind # "row"
    THEN [status |-> 500, body |-> [error |-> "Internal Server Error"]]
    ELSE IF ~Truthy(result.firmwareVersion)
    THEN [status |-> 404, body |-> [error |-> NoStableFound]]
    ELSE [status |-> 200, body |-> [firmwareVersion |-> result.firmwareVersion]]

\* The callback the route GET /latest-stable-firmware passes to
\* fetchLatestStableFirmwareVersion: what it answers for (err, result).
latestStableFirmwareAnswer(err, result) ==
    IF err # Null
    THEN [status |-> 500, body |-> [error |-> "Internal Server Error"]]
    ELSE IF result.kind # "row" \/ ~Truthy(result.firmwareVersion)
    THEN [status |-> 404, body |-> [error |-> NoStableFound]]
    ELSE [status |-> 200, body |-> [firmwareVersion |-> result.firmwareVersion]]

\* GET /latest-stable-firmware: sqlite3 runs the query and the route answers.
GetLatestStableFirmware ==
    \E o \in fetchLatestStableFirmwareVersion(stableFw) :
        LET a == latestStableFirmwareAnswer(o.err, o.row) IN
        /\ resp' = [op |-> "GET /latest-stable-firmware", err |-> o.err,
                    status |-> a.status, body |-> a.body]
        /\ UNCHANGED <<clock, stableFw>>
        /\ UNCHANGED othersFw

NextFw ==
    \/ Tick(MaxFwClock)
    \/ CallSetLatestStableFirmwareVersion
    \/ GetSetStableLatestVersion
    \/ CallFetchLatestStableFirmwareVersion
    \/ GetLatestStableFirmware

SpecFw == Init /\ [][NextFw]_vars

(* Claims about the stable-firmware pointer. *)

\* major.minor.patch said without scanning: two dots split the string into three
\* non-empty runs of digits.
IsMajorMinorPatch(s) ==
    \E i, j \in 1..Len(s) :
        /\ 1 < i /\ i + 1 < j /\ j < Len(s)
        /\ s[i] = "." /\ s[j] = "."
        /\ \A k \in 1..Len(s) : k \notin {i, j} => s[k] \in Digits

SetOps == {"setLatestStableFirmwareVersion", "GET /set-stable-latest-version"}

FetchedRow == resp.op = "fetchLatestStableFirmwareVersion" /\ resp.err = Null

\* C1: a set call with a valid major.minor.patch string that SQLite does not fail
\* appends the pointer row, and a fetch that follows returns the version of the
\* most recently inserted row, also when rows share one stored timestamp.
C1_FetchReturnsNewestInserted ==
    /\ (/\ resp.op = "setLatestStableFirmwareVersion"
        /\ IsMajorMinorPatch(resp.input)
        /\ resp.err # SetFailed)
       => (/\ resp.err = Null
           /\ stableFw # <<>>
           /\ stableFw[Len(stableFw)].firmwareVersion = resp.input)
    /\ (FetchedRow /\ stableFw # <<>>)
       => (/\ resp.row.kind = "row"
           /\ resp.row.firmwareVersion = stableFw[Len(stableFw)].firmwareVersion)

\* What a caller sees when the version was refused: the route answers 400 with the
\* format message, the function passes the format message as err.
ReportsValidationError(r) ==
    IF r.op = "GET /set-stable-latest-version"
    THEN r.status = 400 /\ r.body = InvalidFormat
    ELSE r.err = InvalidFormat /\ r.result = Null

\* C2: for a version that is not major.minor.patch (the absent one included), the
\* route and the function report a validation error and the step leaves the
\* LatestStableFirmware table as it was.
C2_InvalidVersionWritesNothing ==
    [][ (resp'.op \in SetOps /\ ~IsMajorMinorPatch(resp'.input))
        => (stableFw' = stableFw /\ ReportsValidationError(resp')) ]_vars

\* C2's case: a refused version while the table already holds rows.
C2_Witness ==
    /\ resp.op \in SetOps
    /\ resp.input = <<"1", ".", "0", ".", "0", ".", "0">>
    /\ Len(stableFw) = 2

LatestStableAnswered == resp.op = "GET /latest-stable-firmware"

\* The versions of the pointer rows that carry the largest timestamp.
LatestVersions ==
    { stableFw[i].firmwareVersion : i \in
        { k \in 1..Len(stableFw) :
            \A j \in 1..Len(stableFw) : stableFw[j].timestamp <= stableFw[k].timestamp } }

\* C11: GET /latest-stable-firmware answers 500 exactly when the storage read
\* failed; when the read succeeded it answers 404 if there is no pointer row or the
\* latest row has an empty or absent version, and otherwise 200 with the
\* firmwareVersion of a row of the latest timestamp.  A not-found outcome is never
\* answered as 500.
C11_LatestStableAnswer ==
    LatestStableAnswered =>
        /\ resp.status \in {200, 404, 500}
        /\ resp.status = 500 <=> resp.err # Null
        /\ resp.status = 500 => resp.body = [error |-> "Internal Server Error"]
        /\ resp.status = 404 => resp.body = [error |-> "No stable firmware version found"]
        /\ resp.err = Null =>
              /\ (stableFw = <<>> \/ \A v \in LatestVersions : v \in {<<>>, Undefined})
                    => resp.status = 404
              /\ resp.status = 404
                    => (stableFw = <<>> \/ \E v \in LatestVersions : v \in {<<>>, Undefined})
              /\ resp.status = 200
                    => /\ DOMAIN resp.body = {"firmwareVersion"}
                       /\ resp.body.firmwareVersion \in LatestVersions

\* C11's case: with two pointer rows of different timestamps the route answers
\* 200 with the version of the later one.
C11_Witness ==
    /\ LatestStableAnswered
    /\ resp.status = 200
    /\ Len(stableFw) = 2
    /\ stableFw[1].timestamp < stableFw[2].timestamp
    /\ stableFw[1].firmwareVersion # stableFw[2].firmwareVersion
    /\ resp.body.firmwareVersion = stableFw[2].firmwareVersion

\* C11's other case: the read succeeds on an empty table and the answer is 404.
C11_WitnessNotFound ==
    LatestStableAnswered /\ resp.status = 404 /\ resp.err = Null /\ stableFw = <<>>

----------------------------------------------------------------------------
(* Registration: routes/auth.js, validators/validator.js, queries.js. *)

Lower == {"a", "b", "c", "d", "e", "f", "g", "h", "i", "j", "k", "l", "m",
          "n", "o", "p", "q", "r", "s", "t", "u", "v", "w", "x", "y", "z"}
Upper == {"A", "B", "C", "D", "E", "F", "G", "H", "I", "J", "K", "L", "M",
          "N", "O", "P", "Q", "R", "S", "T", "U", "V", "W", "X", "Y", "Z"}
Specials == {"!", "@", "#", "$", "%", "^", "&", "*"}
LineTerminators == {"\n", "\r"}

\* /^[a-zA-Z0-9_]{3,}$/.test(username)
validateUsername(username) ==
    LET s == ToStr(username) IN
    /\ Len(s) >= 3
    /\ \A i \in 1..Len(s) : s[i] \in Lower \cup Upper \cup Digits \cup {"_"}

\* /^(?=.*\d)(?=.*[!@#$%^&*])(?=.*[a-z])(?=.*[A-Z]).{6,}$/.test(password)
\* (. does not match a line terminator, so none may occur before the end).
validatePassword(password) ==
    LET s == ToStr(password) IN
    /\ \A i \in 1..Len(s) : s[i] \notin LineTerminators
    /\ \E i \in 1..Len(s) : s[i] \in Digits
    /\ \E i \in 1..Len(s) : s[i] \in Specials
    /\ \E i \in 1..Len(s) : s[i] \in Lower
    /\ \E i \in 1..Len(s) : s[i] \in Upper
    /\ Len(s) >= 6

UsernameInputs == { <<"a", "b", "c">>, <<"b", "o", "b", "_", "1">>, <<"a", "b">> }
PasswordInputs == { <<"A", "a", "1", "!", "a", "a">>, <<"S", "e", "c", "r", "3", "t", "#">>,
                    <<"a", "b", "c">> }

UsernameMsg == "Username must be at least 3 characters long and contain only alphanumeric characters and underscores"
PasswordMsg == "Password must be at least 6 characters long and contain at least one uppercase letter, one lowercase letter, one number, and one special character"
InternalError == "Internal Server Error"
UsernameExists == "Username already exists"
Registered == "User registered successfully"
\* the error of an INSERT that violates username TEXT UNIQUE
SqliteConstraint == "SQLITE_CONSTRAINT"

othersReg == <<clock, stableFw, sensorData, serialMessages, bucket, dbQueue, errlog,
               delivered, upl, resp, db, tables, subscription, broker>>

\* SELECT * FROM users WHERE username = ?  (the first matching row, or none)
findUserByUsername(table, username) ==
    IF \E i \in 1..Len(table) : table[i].username = username
    THEN LET i == CHOOSE k \in 1..Len(table) : table[k].username = username IN
         [kind |-> "row", id |-> table[i].id, username |-> table[i].username,
          password |-> table[i].password]
    ELSE NoRow

\* INSERT INTO users (username, password) VALUES (?, ?): the err handed to the
\* callback and the table afterwards.  dbErr: sqlite3 fails for a reason of its own.
createUser(table, username, password, dbErr) ==
    IF dbErr
    THEN [err |-> SqliteError, table |-> table]
    ELSE IF \E i \in 1..Len(table) : table[i].username = username
    THEN [err |-> SqliteConstraint, table |-> table]
    ELSE [err |-> Null,
          table |-> Append(table, [id |-> NextId(table), username |-> username,
                                   password |-> password])]

\* The answer of a finished request.
RegDone(username, password, status, body, err) ==
    [pc |-> "done", username |-> username, password |-> password,
     status |-> status, body |-> body, err |-> err]

\* POST /register arrives: the synchronous part of the handler, up to the call of
\* findUserByUsername.
PostRegister(r) ==
    \E username \in UsernameInputs, password \in PasswordInputs :
        /\ reg[r].pc \in {"idle", "done"}
        /\ reg' = [reg EXCEPT ![r] =
                IF ~validateUsername(username)
                THEN RegDone(username, password, 400, UsernameMsg, Null)
                ELSE IF ~validatePassword(password)
                THEN RegDone(username, password, 400, PasswordMsg, Null)
                ELSE [pc |-> "find", username |-> username, password |-> password]]
        /\ UNCHANGED users
        /\ UNCHANGED othersReg

\* sqlite3 runs the SELECT of request r and the callback of findUserByUsername
\* runs: it answers, or calls createUser.
RegisterFindCallback(r) ==
    \E dbErr \in BOOLEAN :
        LET q == reg[r]
            user == findUserByUsername(users, q.username) IN
        /\ q.pc = "find"
        /\ reg' = [reg EXCEPT ![r] =
                IF dbErr
                THEN RegDone(q.username, q.password, 500, InternalError, SqliteError)
                ELSE IF user # NoRow
                THEN RegDone(q.username, q.password, 400, UsernameExists, Null)
                ELSE [pc |-> "create", username |-> q.username,
                      password |-> q.password]]
        /\ UNCHANGED users
        /\ UNCHANGED othersReg

\* sqlite3 runs the INSERT of request r and the callback of createUser answers.
RegisterCreateCallback(r) ==
    \E dbErr \in BOOLEAN :
        LET q == reg[r]
            c == createUser(users, q.username, q.password, dbErr) IN
        /\ q.pc = "create"
        /\ users' = c.table
        /\ reg' = [reg EXCEPT ![r] =
                IF c.err # Null
                THEN RegDone(q.username, q.password, 500, InternalError, c.err)
                ELSE RegDone(q.username, q.password, 201, Registered, Null)]
        /\ UNCHANGED othersReg

NextReg ==
    \E r \in RegSlots :
        \/ PostRegister(r)
        \/ RegisterFindCallback(r)
        \/ RegisterCreateCallback(r)

SpecReg == Init /\ [][NextReg]_vars

(* Claims about registration. *)

Present(table, username) == \E i \in 1..Len(table) : table[i].username = username

\* Request r is answered by this step.
Answered(r) == reg[r].pc \in {"find", "create"} /\ reg'[r].pc = "done"

\* C3: under any interleaving of registration requests, a registration whose
\* username is already in the users table when the store is asked is answered
\* 400 'Username already exists', never with the generic 500, and the table keeps
\* its rows.  (An answer that reports a failure of sqlite3 itself is left aside.)
C3_DuplicateIsConflict ==
    [][ \A r \in RegSlots :
          (/\ Answered(r)
           /\ Present(users, reg[r].username)
           /\ reg'[r].err # SqliteError)
          => (/\ reg'[r].status = 400
              /\ reg'[r].body = UsernameExists
              /\ users' = users) ]_vars

----------------------------------------------------------------------------
(* Firmware upload: POST /firmware-update and firebaseStorage.js. *)

\* The characters of object names, in code-point order (the order of a listing).
Alphabet == <<".", "/", "0", "1", "2", "3", "4", "5", "6", "7", "8", "9",
              "a", "b", "c", "d", "e", "f", "g", "h", "i", "j", "k", "l", "m",
              "n", "o", "p", "q", "r", "s", "t", "u", "v", "w", "x", "y", "z">>
CharRank(c) == CHOOSE i \in 1..Len(Alphabet) : Alphabet[i] = c

RECURSIVE LexLess(_, _)
\* a sorts before b
LexLess(a, b) ==
    IF b = <<>> THEN FALSE
    ELSE IF a = <<>> THEN TRUE
    ELSE IF Head(a) # Head(b) THEN CharRank(Head(a)) < CharRank(Head(b))
    ELSE LexLess(Tail(a), Tail(b))

RECURSIVE SortNames(_)
\* The names of a set, ascending.
SortNames(S) ==
    IF S = {} THEN <<>>
    ELSE LET first == CHOOSE a \in S : \A b \in S \ {a} : LexLess(a, b) IN
         <<first>> \o SortNames(S \ {first})

StartsWith(s, prefix) ==
    Len(s) >= Len(prefix) /\ SubSeq(s, 1, Len(prefix)) = prefix

\* The largest index of character c in s, 0 when it does not occur.
LastIndexOf(s, c) ==
    IF \E i \in 1..Len(s) : s[i] = c
    THEN CHOOSE i \in 1..Len(s) : s[i] = c /\ \A j \in (i + 1)..Len(s) : s[j] # c
    ELSE 0

\* path.extname: from the last dot of the last path segment to its end; empty when
\* there is no dot, when the segment starts with its only dot, and for "..".
extname(path) ==
    LET base == SubSeq(path, LastIndexOf(path, "/") + 1, Len(path))
        d == LastIndexOf(base, ".") IN
    IF d = 0 \/ d = 1 \/ base = <<".", ".">>
    THEN <<>>
    ELSE SubSeq(base, d, Len(base))

DotBin == <<".", "b", "i", "n">>
FirmwareDir == <<"f", "i", "r", "m", "w", "a", "r", "e", "/">>
FirmwareBin == <<"f", "i", "r", "m", "w", "a", "r", "e", ".", "b", "i", "n">>

\* A path that leaves the version directory out: firmware/<version>.bin
DestinationPathFlat(firmwareVersion) == FirmwareDir \o firmwareVersion \o DotBin

\* `firmware/${firmwareVersion}/firmware.bin`
DestinationPath(firmwareVersion) == FirmwareDir \o firmwareVersion \o <<"/">> \o FirmwareBin

\* The prefix without its closing slash: `firmware/${firmwareVersion}`
VersionPrefixNoSlash(firmwareVersion) == FirmwareDir \o firmwareVersion

\* `firmware/${firmwareVersion}/`
VersionPrefix(firmwareVersion) == FirmwareDir \o firmwareVersion \o <<"/">>

\* bucket.getFiles({ prefix }): the names under the prefix, as listed.
GetFiles(objects, prefix) ==
    SortNames({ o.name : o \in { x \in objects : StartsWith(x.name, prefix) } })

\* fileRef.save(buffer, { metadata: { contentType } }): the object replaces the one
\* of the same name.
SaveObject(objects, name, buffer, contentType) ==
    { o \in objects : o.name # name }
        \cup {[name |-> name, data |-> buffer, contentType |-> contentType]}

NoFile == [kind |-> "undefined"]
OctetStream == "application/octet-stream"
UploadFile(originalname, buffer) ==
    [kind |-> "file", originalname |-> originalname, buffer |-> buffer,
     mimetype |-> OctetStream]

FileInputs ==
    { UploadFile(<<"f", "w", ".", "b", "i", "n">>, "build-A"),
      UploadFile(<<"f", "w", ".", "b", "i", "n">>, "build-B"),
      UploadFile(<<"f", "w", ".", "t", "x", "t">>, "build-A"),
      UploadFile(<<".", "b", "i", "n">>, "build-A"),
      UploadFile(<<"f", "w", "b", "i", "n">>, "build-A"),
      NoFile }

UploadVersionInputs ==
    {V101, V1010, <<"1", ".", "0">>, <<"1", ".", "0", ".", "1", "\n">>, <<>>, Undefined}

BinMsg == "Please upload a .bin file"
UploadedMsg == "Firmware uploaded and saved successfully"
UploadFailedMsg == "Failed to handle firmware upload"

othersUpl == <<clock, stableFw, sensorData, serialMessages, users, dbQueue, errlog,
               delivered, reg, resp, db, tables, subscription, broker>>

\* A route whose catch block answers like the success path.
UploadDoneAlwaysOk(q, status, body) ==
    [pc |-> "done", file |-> q.file, firmwareVersion |-> q.firmwareVersion,
     status |-> 200, body |-> "Firmware uploaded and saved successfully"]

\* The answer to a request that uploadFileToFirebaseStorage was called for.
UploadDone(q, status, body) ==
    [pc |-> "done", file |-> q.file, firmwareVersion |-> q.firmwareVersion,
     status |-> status, body |-> body]

\* The answer to a request refused by the route's validation.
UploadRefused(body) == [pc |-> "done", status |-> 400, body |-> body]

\* POST /firmware-update arrives: the handler up to the first await of
\* uploadFileToFirebaseStorage (bucket.getFiles).
PostFirmwareUpdate(u) ==
    \E file \in FileInputs, firmwareVersion \in UploadVersionInputs :
        /\ upl[u].pc \in {"idle", "done"}
        /\ upl' = [upl EXCEPT ![u] =
                IF file = NoFile \/ extname(file.originalname) # DotBin
                THEN UploadRefused(BinMsg)
                ELSE IF ~validateFirmwareVersion(firmwareVersion)
                THEN UploadRefused(InvalidFormat)
                ELSE [pc |-> "list", file |-> file,
                      firmwareVersion |-> firmwareVersion]]
        /\ UNCHANGED bucket
        /\ UNCHANGED othersUpl

\* bucket.getFiles settles: the listing is kept, or the rejection reaches the
\* route's catch.
UploadListed(u) ==
    \E fails \in BOOLEAN :
        LET q == upl[u]
            existingFiles == GetFiles(bucket, VersionPrefix(q.firmwareVersion)) IN
        /\ q.pc = "list"
        /\ upl' = [upl EXCEPT ![u] =
                IF fails
                THEN UploadDone(q, 500, UploadFailedMsg)
                ELSE [pc |-> IF Len(existingFiles) > 0 THEN "delete" ELSE "save",
                      file |-> q.file, firmwareVersion |-> q.firmwareVersion,
                      existingFiles |-> existingFiles, next |-> 1]]
        /\ UNCHANGED bucket
        /\ UNCHANGED othersUpl

\* existingFile.delete() settles for the next listed file; deleting an object that
\* is no longer there is rejected (404), like any other failure.
UploadDeleted(u) ==
    \E fails \in BOOLEAN :
        LET q == upl[u]
            name == q.existingFiles[q.next] IN
        /\ q.pc = "delete"
        /\ IF fails \/ ~\E o \in bucket : o.name = name
           THEN /\ upl' = [upl EXCEPT ![u] = UploadDone(q, 500, UploadFailedMsg)]
                /\ UNCHANGED bucket
           ELSE /\ bucket' = { o \in bucket : o.name # name }
                /\ upl' = [upl EXCEPT ![u] =
                        [q EXCEPT !.next = q.next + 1,
                                  !.pc = IF q.next < Len(q.existingFiles)
                                         THEN "delete" ELSE "save"]]
        /\ UNCHANGED othersUpl

\* fileRef.save settles and the route answers.
UploadSaved(u) ==
    \E fails \in BOOLEAN :
        LET q == upl[u] IN
        /\ q.pc = "save"
        /\ IF fails
           THEN /\ upl' = [upl EXCEPT ![u] = UploadDone(q, 500, UploadFailedMsg)]
                /\ UNCHANGED bucket
           ELSE /\ bucket' = SaveObject(bucket, DestinationPath(q.firmwareVersion),
                                        q.file.buffer, q.file.mimetype)
                /\ upl' = [upl EXCEPT ![u] = UploadDone(q, 200, UploadedMsg)]
        /\ UNCHANGED othersUpl

NextUpl ==
    \E u \in UploadSlots :
        \/ PostFirmwareUpdate(u)
        \/ UploadListed(u)
        \/ UploadDeleted(u)
        \/ UploadSaved(u)

SpecUpl == Init /\ [][NextUpl]_vars

(* Claims about the upload. *)

\* The objects whose name starts with firmware/<version>/
Under(objects, firmwareVersion) ==
    { o \in objects : StartsWith(o.name, VersionPrefix(firmwareVersion)) }

\* Upload u is answered 200 by this step.
UploadSucceeds(u) ==
    upl[u].pc = "save" /\ upl'[u].pc = "done" /\ upl'[u].status = 200

\* Another upload of the same version was answered 200 before.
UploadedBefore(u) ==
    \E w \in UploadSlots \ {u} :
        /\ upl[w].pc = "done" /\ upl[w].status = 200
        /\ upl[w].firmwareVersion = upl[u].firmwareVersion

\* C4: when an upload of version v succeeds after an earlier successful upload of
\* v, exactly one object exists under firmware/v/: firmware/v/firmware.bin, and it
\* holds the payload of the later upload.
C4_SecondUploadReplaces ==
    [][ \A u \in UploadSlots :
          (UploadSucceeds(u) /\ UploadedBefore(u))
          => Under(bucket', upl[u].firmwareVersion) =
                {[name |-> FirmwareDir \o upl[u].firmwareVersion \o <<"/">> \o FirmwareBin,
                  data |-> upl[u].file.buffer,
                  contentType |-> upl[u].file.mimetype]} ]_vars

\* C4's case: two successful uploads of one version with different payloads.
C4_Witness ==
    /\ \A u \in {1, 2} : upl[u].pc = "done" /\ upl[u].status = 200
    /\ upl[1].firmwareVersion = upl[2].firmwareVersion
    /\ upl[1].file.buffer # upl[2].file.buffer
    /\ Cardinality(Under(bucket, upl[2].firmwareVersion)) = 1
    /\ \E o \in bucket : o.data = upl[2].file.buffer

\* The original name has the extension .bin: it ends in .bin after at least one
\* character of its last path segment.
HasBinExtension(name) ==
    /\ Len(name) >= 5
    /\ SubSeq(name, Len(name) - 3, Len(name)) = <<".", "b", "i", "n">>
    /\ name[Len(name) - 4] # "/"

\* Slot u takes a request in this step.
UploadArrives(u) == upl[u].pc \in {"idle", "done"} /\ upl'[u] # upl[u]

\* C12: a request whose file is missing or not named *.bin, or whose version is
\* not major.minor.patch, is answered 400 by the step that takes it, which starts
\* no listing and leaves the bucket as it is; only a request with a .bin file and
\* a well-formed version goes on to Object Storage, and the bucket changes only
\* in a delete or save step of such a request.
C12_InvalidUploadRefused ==
    [][ /\ \A u \in UploadSlots :
              UploadArrives(u) =>
                \/ /\ upl'[u].pc = "list"
                   /\ upl'[u].file.kind = "file"
                   /\ HasBinExtension(upl'[u].file.originalname)
                   /\ IsMajorMinorPatch(upl'[u].firmwareVersion)
                \/ /\ upl'[u].pc = "done"
                   /\ upl'[u].status = 400
                   /\ upl'[u].body \in
                         {"Please upload a .bin file",
                          "Invalid firmware version format. Use major.minor.patch (e.g., 1.0.2)"}
                   /\ bucket' = bucket
        /\ bucket' # bucket =>
              \E u \in UploadSlots :
                  /\ upl[u].pc \in {"delete", "save"}
                  /\ upl'[u] # upl[u]
                  /\ HasBinExtension(upl[u].file.originalname)
                  /\ IsMajorMinorPatch(upl[u].firmwareVersion) ]_vars

\* C12's case: a request was refused with 400 while the bucket holds the binary of
\* an earlier upload.
C12_Witness ==
    /\ upl[1].pc = "done" /\ upl[1].status = 200
    /\ upl[2].pc = "done" /\ upl[2].status = 400
    /\ upl[2].body = "Invalid firmware version format. Use major.minor.patch (e.g., 1.0.2)"
    /\ bucket = {[name |-> DestinationPath(upl[1].firmwareVersion),
                  data |-> upl[1].file.buffer, contentType |-> OctetStream]}

\* Slot u takes a step of uploadFileToFirebaseStorage.
UploadSteps(u) == upl[u].pc \in {"list", "delete", "save"} /\ upl'[u] # upl[u]

\* The request of slot u is answered 500 by this step, which leaves the bucket.
UploadFails(u) ==
    /\ upl'[u].pc = "done" /\ upl'[u].status = 500
    /\ upl'[u].body = "Failed to handle firmware upload"
    /\ bucket' = bucket

\* C13: a request is answered 200 only by the step in which the write of
\* firmware/<version>/firmware.bin is confirmed, with the object then in the
\* bucket; a step of the upload either performs its operation and moves on (list,
\* then one delete per listed object, then the write) or answers 500 leaving the
\* bucket, and no operation is started again after it has failed or succeeded.
C13_SuccessOnlyAfterWrite ==
    [][ \A u \in UploadSlots :
          /\ (upl'[u] # upl[u] /\ upl'[u].pc = "done" /\ upl'[u].status = 200)
                => /\ upl[u].pc = "save"
                   /\ [name |-> FirmwareDir \o upl[u].firmwareVersion
                                    \o <<"/">> \o FirmwareBin,
                        data |-> upl[u].file.buffer,
                        contentType |-> upl[u].file.mimetype] \in bucket'
          /\ (UploadSteps(u) /\ upl[u].pc = "list")
                => \/ UploadFails(u)
                   \/ /\ upl'[u].pc \in {"delete", "save"}
                      /\ upl'[u].next = 1
                      /\ bucket' = bucket
          /\ (UploadSteps(u) /\ upl[u].pc = "delete")
                => \/ UploadFails(u)
                   \/ /\ upl'[u].pc \in {"delete", "save"}
                      /\ upl'[u].next = upl[u].next + 1
                      /\ upl'[u].existingFiles = upl[u].existingFiles
                      /\ bucket' = { o \in bucket :
                                       o.name # upl[u].existingFiles[upl[u].next] }
                      /\ bucket' # bucket
          /\ (UploadSteps(u) /\ upl[u].pc = "save")
                => \/ UploadFails(u)
                   \/ /\ upl'[u].pc = "done" /\ upl'[u].status = 200
                      /\ upl'[u].body = "Firmware uploaded and saved successfully" ]_vars

\* C13's case: one upload was answered 200 with its object stored, and a later
\* upload of the same version failed after deleting that object and was answered
\* 500.
C13_Witness ==
    /\ upl[1].pc = "done" /\ upl[1].status = 200
    /\ upl[2].pc = "done" /\ upl[2].status = 500
    /\ upl[2].firmwareVersion = upl[1].firmwareVersion
    /\ bucket = {}

\* The objects whose name starts with firmware/<version>/, said without the
\* code's own prefix.
StoredFor(objects, firmwareVersion) ==
    { o \in objects :
        LET prefix == <<"f", "i", "r", "m", "w", "a", "r", "e", "/">>
                         \o firmwareVersion \o <<"/">> IN
        Len(o.name) >= Len(prefix) /\ SubSeq(o.name, 1, Len(prefix)) = prefix }

\* The bucket holds at most one object under the prefix of every version.
AtMostOnePerVersion ==
    \A v \in ValidVersions : Cardinality(StoredFor(bucket, v)) <= 1

\* C14: in every state, under any interleaving of uploads, the bucket holds at
\* most one object under each prefix firmware/<version>/, and whenever an upload
\* stores its object, the objects that were under the prefix have been deleted
\* before: the write finds the prefix empty.
C14_OnePerPrefixDeleteBeforeStore ==
    [][ /\ AtMostOnePerVersion'
        /\ \A u \in UploadSlots :
              (upl[u].pc = "save" /\ upl'[u].pc = "done" /\ upl'[u].status = 200)
              => StoredFor(bucket, upl[u].firmwareVersion) = {} ]_vars

\* C19: every step of an upload for version v, whether the upload goes on,
\* succeeds or fails, leaves each object that is not under firmware/v/ as it is,
\* the objects of a version that v is a string prefix of included.
C19_OtherVersionsUntouched ==
    [][ \A u \in UploadSlots :
          UploadSteps(u) =>
            bucket \ StoredFor(bucket, upl[u].firmwareVersion)
              = bucket' \ StoredFor(bucket', upl[u].firmwareVersion) ]_vars

\* C19's case: an upload for 1.0.1 has listed and deleted the object of 1.0.1
\* and is about to write, and the object of 1.0.10 is still in the bucket.
C19_Witness ==
    /\ upl[1].pc = "done" /\ upl[1].status = 200
    /\ upl[1].firmwareVersion = <<"1", ".", "0", ".", "1", "0">>
    /\ upl[2].pc = "save"
    /\ upl[2].firmwareVersion = <<"1", ".", "0", ".", "1">>
    /\ Len(upl[2].existingFiles) = 1
    /\ Cardinality(bucket) = 1
    /\ \E o \in bucket : o.name = FirmwareDir \o upl[1].firmwareVersion \o <<"/">>
                                       \o FirmwareBin

----------------------------------------------------------------------------
(* JavaScript values, and what sqlite3 stores for them. *)

Js(t, v) == [t |-> t, v |-> v]
JsUndefined == Js("undefined", "")
JsNull == Js("null", "")
JsFalse == Js("boolean", "false")
JsTrue == Js("boolean", "true")
JsString(v) == Js("string", v)
JsNumber(v) == Js("number", v)

Sql(t, v) == [t |-> t, v |-> v]
SqlNull == Sql("null", "")

\* Number literals of the inputs that are whole numbers.
IntegralLiterals == {"0", "1", "40"}
\* Texts of the inputs that SQLite reads as a number, with the number.
NumericTexts == {"21.50"}
NumberOfText(v) == IF v = "21.50" THEN "21.5" ELSE v

\* node-sqlite3's binding of a JavaScript argument to a statement parameter: a
\* string as text, a whole number as integer, another number as float, a boolean
\* as 0 or 1, null as NULL; undefined is left unbound, which SQLite reads as NULL.
Bind(x) ==
    CASE x.t = "string" -> Sql("text", x.v)
      [] x.t = "number" -> Sql(IF x.v \in IntegralLiterals THEN "integer" ELSE "real", x.v)
      [] x.t = "boolean" -> Sql("integer", IF x.v = "true" THEN "1" ELSE "0")
      [] OTHER -> SqlNull

\* The column's type affinity applied to a value on INSERT.
Affinity(column, x) ==
    CASE column = "TEXT" ->
            IF x.t \in {"integer", "real"} THEN Sql("text", x.v) ELSE x
      [] column = "REAL" ->
            IF x.t = "integer" THEN Sql("real", x.v)
            ELSE IF x.t = "text" /\ x.v \in NumericTexts
            THEN Sql("real", NumberOfText(x.v))
            ELSE x
      [] column = "INTEGER" ->
            IF x.t = "text" /\ x.v \in NumericTexts
            THEN Sql(IF NumberOfText(x.v) \in IntegralLiterals THEN "integer" ELSE "real",
                     NumberOfText(x.v))
            ELSE IF x.t = "real" /\ x.v \in IntegralLiterals
            THEN Sql("integer", x.v)
            ELSE x

----------------------------------------------------------------------------
(* The MQTT dispatcher: mqtt/mqttHandler.js, and the inserts of queries.js. *)

FieldNames == {"messageType", "temperature", "humidity", "heaterState", "deviceID",
               "version", "serialMessage", "fanState"}

\* What JSON.parse makes of a payload: it throws ("text"), or returns null, a
\* value without properties ("scalar"), or an object.  Reading a property the
\* object does not have gives undefined.
NoFields == [f \in FieldNames |-> JsUndefined]
NotJson == [kind |-> "text", fields |-> NoFields]
JsonNull == [kind |-> "null", fields |-> NoFields]
JsonScalar == [kind |-> "scalar", fields |-> NoFields]
JsonObject(fields) ==
    [kind |-> "object",
     fields |-> [f \in FieldNames |-> IF f \in DOMAIN fields THEN fields[f]
                                      ELSE JsUndefined]]

DataMessage(temperature, heaterState, fanState) ==
    JsonObject([messageType |-> JsString("data"), temperature |-> temperature,
                humidity |-> JsNumber("40"), heaterState |-> heaterState,
                deviceID |-> JsString("d1"), version |-> JsString("1.0.0"),
                fanState |-> fanState])

SerialMessage(serialMessage) ==
    JsonObject([messageType |-> JsString("serial"), serialMessage |-> serialMessage])

DataMessages ==
    { DataMessage(JsNumber("21.5"), JsString("ON"), JsUndefined),
      DataMessage(JsString("21.50"), JsString("OFF"), JsTrue),
      JsonObject([messageType |-> JsString("data")]) }

SerialMessages ==
    { SerialMessage(JsString("boot ok")),
      SerialMessage(JsString("")),
      SerialMessage(JsNull),
      SerialMessage(JsUndefined) }

OtherMessages ==
    { NotJson, JsonNull, JsonScalar,
      JsonObject([messageType |-> JsString("unknown")]),
      JsonObject([temperature |-> JsNumber("21.5"), serialMessage |-> JsString("boot ok")]) }

Messages == DataMessages \cup SerialMessages \cup OtherMessages

\* insertData(db, ...): the statement handed to sqlite3 (prepare, run, finalize).
insertData(temperature, humidity, fanState, heaterState, deviceID, firmwareVersion) ==
    [sql |-> "INSERT INTO SensorData",
     params |-> <<temperature, humidity, fanState, heaterState, deviceID,
                  firmwareVersion>>]

\* insertSerialMessage(db, serialMessage): the statement handed to sqlite3.
insertSerialMessage(serialMessage) ==
    [sql |-> "INSERT INTO SerialMessages", params |-> <<serialMessage>>]

\* The listener with its try block unguarded: what is thrown leaves the listener.
onMessageUnguarded(message) ==
    IF message.kind \in {"text", "null"}
    THEN [outcome |-> "threw", stmts |-> <<>>, errors |-> <<>>]
    ELSE [outcome |-> "returned",
          stmts |-> IF message.fields.messageType = JsString("data")
                    THEN <<[sql |-> "INSERT INTO SensorData",
                            params |-> <<message.fields.temperature,
                                         message.fields.humidity, JsFalse,
                                         message.fields.heaterState,
                                         message.fields.deviceID,
                                         message.fields.version>>]>>
                    ELSE IF message.fields.messageType = JsString("serial")
                    THEN <<[sql |-> "INSERT INTO SerialMessages",
                            params |-> <<message.fields.serialMessage>>]>>
                    ELSE <<>>,
          errors |-> <<>>]

\* The dispatch that reads the fan state from the payload.
dispatchFanFromPayload(m) ==
    IF m.messageType = JsString("data")
    THEN <<insertData(m.temperature, m.humidity, m.fanState, m.heaterState,
                      m.deviceID, m.version)>>
    ELSE IF m.messageType = JsString("serial")
    THEN <<insertSerialMessage(m.serialMessage)>>
    ELSE <<>>

\* The dispatch that stores the message type of a serial message.
dispatchSerialType(m) ==
    IF m.messageType = JsString("data")
    THEN <<insertData(m.temperature, m.humidity, JsFalse, m.heaterState,
                      m.deviceID, m.version)>>
    ELSE IF m.messageType = JsString("serial")
    THEN <<insertSerialMessage(m.messageType)>>
    ELSE <<>>

\* The body of the try block once JSON.parse has returned messageObject m (its
\* properties): the statements it hands to sqlite3.
dispatch(m) ==
    IF m.messageType = JsString("data")
    THEN <<insertData(m.temperature, m.humidity, JsFalse, m.heaterState,
                      m.deviceID, m.version)>>
    ELSE IF m.messageType = JsString("serial")
    THEN <<insertSerialMessage(m.serialMessage)>>
    ELSE <<>>

ParseFailed == "Failed to parse incoming message:"

\* client.on('message', ...): JSON.parse throws a SyntaxError, reading a property
\* of null throws a TypeError; the catch logs either and the listener returns.
onMessage(message) ==
    IF message.kind = "text"
    THEN [outcome |-> "returned", stmts |-> <<>>,
          errors |-> <<[text |-> ParseFailed, err |-> "SyntaxError"]>>]
    ELSE IF message.kind = "null"
    THEN [outcome |-> "returned", stmts |-> <<>>,
          errors |-> <<[text |-> ParseFailed, err |-> "TypeError"]>>]
    ELSE [outcome |-> "returned", stmts |-> dispatch(message.fields), errors |-> <<>>]

othersMqtt == <<clock, stableFw, users, bucket, reg, upl, db, subscription, broker>>

\* The broker, which holds the subscription, delivers a message on the topic and
\* the 'message' listener runs.  A listener that throws takes the process down,
\* so nothing is delivered after that.
OnMessage(inputs, maxMsgs) ==
    \E message \in inputs :
        LET h == onMessage(message) IN
        /\ broker = "granted"
        /\ Len(delivered) < maxMsgs
        /\ \A i \in 1..Len(delivered) : delivered[i].outcome = "returned"
        /\ delivered' = Append(delivered, [message |-> message, outcome |-> h.outcome])
        /\ dbQueue' = dbQueue \o h.stmts
        /\ errlog' = errlog \o h.errors
        /\ resp' = NoResp
        /\ UNCHANGED <<sensorData, serialMessages, tables>>
        /\ UNCHANGED othersMqtt

InsertDataFailed == "Failed to insert data:"
InsertSerialFailed == "Failed to insert serial message:"
NotNullFailed == "SQLITE_CONSTRAINT: NOT NULL constraint failed: SerialMessages.message"

\* The row INSERT INTO SensorData (...) VALUES (?, ?, ?, ?, ?, ?) adds.
SensorRow(table, params) ==
    [id |-> NextId(table),
     temperature |-> Affinity("REAL", Bind(params[1])),
     humidity |-> Affinity("REAL", Bind(params[2])),
     fanState |-> Affinity("INTEGER", Bind(params[3])),
     heaterState |-> Affinity("INTEGER", Bind(params[4])),
     deviceID |-> Affinity("TEXT", Bind(params[5])),
     firmwareVersion |-> Affinity("TEXT", Bind(params[6])),
     timestamp |-> CurrentTimestamp]

\* The queue without its i-th statement.
Without(queue, i) == SubSeq(queue, 1, i - 1) \o SubSeq(queue, i + 1, Len(queue))

CreateTable == "CREATE TABLE IF NOT EXISTS "
NoSuchTable == "SQLITE_ERROR: no such table"

\* The table a statement of the queue names.
TableOf(stmt) ==
    CASE stmt.sql \in {"INSERT INTO SensorData", CreateTable \o "SensorData"} ->
            "SensorData"
      [] stmt.sql \in {"INSERT INTO SerialMessages", CreateTable \o "SerialMessages"} ->
            "SerialMessages"
      [] stmt.sql = CreateTable \o "LatestStableFirmware" -> "LatestStableFirmware"
      [] OTHER -> "users"

IsCreate(stmt) == stmt.sql \in { CreateTable \o t : t \in AllTables }

\* What the callback of a CREATE TABLE statement logs on an error.
CreateFailed(table) ==
    CASE table = "SensorData" -> "Failed to create SensorData table:"
      [] table = "SerialMessages" -> "Failed to create SerialMessages table:"
      [] table = "LatestStableFirmware" -> "Failed to create LatestStableFirmware table:"
      [] OTHER -> "Failed to create Users table:"

\* sqlite3 executes one of the pending statements once the database is open
\* (statements of different Statement objects are not ordered among themselves)
\* and its callback runs.  An INSERT into a table that does not exist fails.
DbExec ==
    \E i \in 1..Len(dbQueue), dbErr \in BOOLEAN :
        LET stmt == dbQueue[i] IN
        /\ db = "open"
        /\ dbQueue' = Without(dbQueue, i)
        /\ IF IsCreate(stmt)
           THEN IF dbErr
                THEN /\ errlog' = Append(errlog, [text |-> CreateFailed(TableOf(stmt)),
                                                  err |-> SqliteError])
                     /\ UNCHANGED <<sensorData, serialMessages, tables>>
                ELSE /\ tables' = tables \cup {TableOf(stmt)}
                     /\ UNCHANGED <<sensorData, serialMessages, errlog>>
           ELSE IF TableOf(stmt) \notin tables
           THEN /\ errlog' = Append(errlog, [text |-> stmt.sql, err |-> NoSuchTable])
                /\ UNCHANGED <<sensorData, serialMessages, tables>>
           ELSE IF stmt.sql = "INSERT INTO SensorData"
           THEN IF dbErr
                THEN /\ errlog' = Append(errlog, [text |-> InsertDataFailed,
                                                  err |-> SqliteError])
                     /\ UNCHANGED <<sensorData, serialMessages, tables>>
                ELSE /\ sensorData' = Append(sensorData,
                                             SensorRow(sensorData, stmt.params))
                     /\ UNCHANGED <<serialMessages, errlog, tables>>
           ELSE LET message == Affinity("TEXT", Bind(stmt.params[1])) IN
                IF dbErr \/ message = SqlNull
                THEN /\ errlog' = Append(errlog,
                            [text |-> InsertSerialFailed,
                             err |-> IF dbErr THEN SqliteError ELSE NotNullFailed])
                     /\ UNCHANGED <<sensorData, serialMessages, tables>>
                ELSE /\ serialMessages' = Append(serialMessages,
                            [id |-> NextId(serialMessages), message |-> message])
                     /\ UNCHANGED <<sensorData, errlog, tables>>
        /\ resp' = NoResp
        /\ UNCHANGED delivered
        /\ UNCHANGED othersMqtt

NextMqtt ==
    \/ OnMessage(Messages, MaxMsgs)
    \/ DbExec

SpecMqtt == Init /\ [][NextMqtt]_vars

(* Claims about the dispatcher. *)

\* The delivered messages that parsed to an object of the given messageType.
DeliveredOfType(type) ==
    { i \in 1..Len(delivered) :
        /\ delivered[i].message.kind = "object"
        /\ delivered[i].message.fields.messageType = JsString(type) }

PendingOf(sql) == { i \in 1..Len(dbQueue) : dbQueue[i].sql = sql }
LoggedOf(text) == { i \in 1..Len(errlog) : errlog[i].text = text }

\* Every statement handed to sqlite3 stems from one data or serial message: per
\* table, rows, pending statements and logged failures add up to the messages of
\* its type.
StatementsAccounted ==
    /\ Len(sensorData) + Cardinality(PendingOf("INSERT INTO SensorData"))
          + Cardinality(LoggedOf(InsertDataFailed))
       = Cardinality(DeliveredOfType("data"))
    /\ Len(serialMessages) + Cardinality(PendingOf("INSERT INTO SerialMessages"))
          + Cardinality(LoggedOf(InsertSerialFailed))
       = Cardinality(DeliveredOfType("serial"))

\* What SQLite keeps of a JavaScript value in a column of the given type.
Stored(column, x) == Affinity(column, Bind(x))

\* The reading a data message with properties m stands for.
ReadingOf(m) ==
    [temperature |-> Stored("REAL", m.temperature),
     humidity |-> Stored("REAL", m.humidity),
     fanState |-> Sql("integer", "0"),
     heaterState |-> Stored("INTEGER", m.heaterState),
     deviceID |-> Stored("TEXT", m.deviceID),
     firmwareVersion |-> Stored("TEXT", m.version)]

\* A SensorData row without its id and timestamp.
Reading(row) ==
    [temperature |-> row.temperature, humidity |-> row.humidity,
     fanState |-> row.fanState, heaterState |-> row.heaterState,
     deviceID |-> row.deviceID, firmwareVersion |-> row.firmwareVersion]

RowsWith(e) == { i \in 1..Len(sensorData) : Reading(sensorData[i]) = e }
PendingWith(e) ==
    { i \in PendingOf("INSERT INTO SensorData") :
        Reading(SensorRow(sensorData, dbQueue[i].params)) = e }
DeliveredWith(e) ==
    { i \in DeliveredOfType("data") : ReadingOf(delivered[i].message.fields) = e }

\* C6: every message that parses to an object with messageType 'data' gives
\* exactly one SensorData row (pending until sqlite3 runs the statement, absent
\* only when sqlite3 logged a failure) with the payload's temperature, humidity,
\* heaterState, deviceID and version and with fanState 0 whatever the payload
\* says, and gives no SerialMessages row.
C6_DataMessageOneRow ==
    /\ StatementsAccounted
    /\ \A i \in 1..Len(sensorData) : sensorData[i].fanState = Sql("integer", "0")
    /\ \A e \in { Reading(sensorData[i]) : i \in 1..Len(sensorData) }
                 \cup { ReadingOf(delivered[i].message.fields) :
                           i \in DeliveredOfType("data") } :
          /\ Cardinality(RowsWith(e)) + Cardinality(PendingWith(e))
                <= Cardinality(DeliveredWith(e))
          /\ LoggedOf(InsertDataFailed) = {}
                => Cardinality(RowsWith(e)) + Cardinality(PendingWith(e))
                     = Cardinality(DeliveredWith(e))

\* C6's case: two data messages, one of them with fanState true in the payload,
\* have become two rows.
C6_Witness ==
    /\ Len(sensorData) = 2
    /\ \E i \in DeliveredOfType("data") :
          delivered[i].message.fields.fanState = JsTrue
    /\ \E i \in 1..2 : sensorData[i].heaterState = Sql("text", "OFF")

\* The non-empty texts that serial messages carried.
SerialTexts ==
    { delivered[i].message.fields.serialMessage.v : i \in
        { k \in DeliveredOfType("serial") :
            /\ delivered[k].message.fields.serialMessage.t = "string"
            /\ delivered[k].message.fields.serialMessage.v # "" } }

SerialRowsWith(v) ==
    { i \in 1..Len(serialMessages) : serialMessages[i].message = Sql("text", v) }
SerialPendingWith(v) ==
    { i \in PendingOf("INSERT INTO SerialMessages") :
        dbQueue[i].params = <<JsString(v)>> }
SerialDeliveredWith(v) ==
    { i \in DeliveredOfType("serial") :
        delivered[i].message.fields.serialMessage = JsString(v) }
SqliteFailedSerial ==
    { i \in LoggedOf(InsertSerialFailed) : errlog[i].err = SqliteError }

\* C7: every message that parses to an object with messageType 'serial' and a
\* non-empty string serialMessage gives exactly one SerialMessages row whose
\* message is that string (pending until sqlite3 runs the statement, absent only
\* when sqlite3 logged a failure of its own), and gives no SensorData row.
C7_SerialMessageOneRow ==
    /\ Len(sensorData) + Cardinality(PendingOf("INSERT INTO SensorData"))
          + Cardinality(LoggedOf(InsertDataFailed))
       = Cardinality(DeliveredOfType("data"))
    /\ \A v \in SerialTexts
                 \cup { serialMessages[i].message.v : i \in
                          { k \in 1..Len(serialMessages) :
                              serialMessages[k].message.v # "" } } :
          /\ Cardinality(SerialRowsWith(v)) + Cardinality(SerialPendingWith(v))
                <= Cardinality(SerialDeliveredWith(v))
          /\ SqliteFailedSerial = {}
                => Cardinality(SerialRowsWith(v)) + Cardinality(SerialPendingWith(v))
                     = Cardinality(SerialDeliveredWith(v))

\* C7's case: the same text sent twice is two rows, next to a data message.
C7_Witness ==
    /\ Len(serialMessages) = 2
    /\ Cardinality(SerialRowsWith("boot ok")) = 2
    /\ Len(sensorData) = 1

\* The delivered messages that are neither a 'data' nor a 'serial' object.
DeliveredOther ==
    (1..Len(delivered)) \ (DeliveredOfType("data") \cup DeliveredOfType("serial"))

\* C8: a message that is not valid JSON, or whose messageType is missing or
\* neither 'data' nor 'serial', hands no statement to sqlite3, so both tables keep
\* their rows, and the listener returns without throwing.
C8_OtherMessageNoEffect ==
    /\ \A i \in DeliveredOther : delivered[i].outcome = "returned"
    /\ Len(sensorData) + Len(serialMessages) + Len(dbQueue)
          + Cardinality(LoggedOf(InsertDataFailed))
          + Cardinality(LoggedOf(InsertSerialFailed))
       = Cardinality(DeliveredOfType("data")) + Cardinality(DeliveredOfType("serial"))

\* C8's case: a payload that is not JSON and an unknown type left no trace, and
\* the data message delivered after them became a row.
C8_Witness ==
    /\ Len(delivered) = 3
    /\ delivered[1].message = NotJson
    /\ delivered[2].message = JsonObject([messageType |-> JsString("unknown")])
    /\ Len(sensorData) = 1 /\ serialMessages = <<>> /\ dbQueue = <<>>

\* C10: an empty or absent serial message is rejected: no SerialMessages row holds
\* an empty text or a value that is not a text.
C10_EmptyMessageRejected ==
    \A i \in 1..Len(serialMessages) :
        /\ serialMessages[i].message.t = "text"
        /\ serialMessages[i].message.v # ""

----------------------------------------------------------------------------
(* Device status: checkDeviceStatus of queries.js and GET /check-device-status. *)

\* the seconds within which the last reading counts as recent
OnlineWindow == 30

LastSeen(timestamp) == [t |-> "timestamp", v |-> timestamp]
NotSeen == [t |-> "text", v |-> "N/A"]

\* The comparison with the boundary left out: timeDifference < 30.
isRecentExclusive(timeDifference) == timeDifference < OnlineWindow

\* timeDifference <= 30
isRecent(timeDifference) == timeDifference <= OnlineWindow

\* SELECT ... FROM SensorData ORDER BY id DESC LIMIT 1: the index of the row.
LastById(table) ==
    CHOOSE i \in 1..Len(table) : \A j \in 1..Len(table) : table[j].id <= table[i].id

\* checkDeviceStatus(db, callback): what the callback receives.  time_difference
\* is strftime('%s', 'now') - strftime('%s', timestamp), both whole seconds.
checkDeviceStatus(table, dbErr) ==
    IF dbErr
    THEN [result |-> Null, err |-> SqliteError]
    ELSE IF table = <<>>
    THEN [result |-> [status |-> "Offline", lastSeen |-> NotSeen], err |-> Null]
    ELSE LET row == table[LastById(table)]
             time_difference == CurrentTimestamp - row.timestamp IN
         IF isRecent(time_difference)
         THEN [result |-> [status |-> "Online", lastSeen |-> LastSeen(row.timestamp)],
               err |-> Null]
         ELSE [result |-> [status |-> "Offline", lastSeen |-> LastSeen(row.timestamp)],
               err |-> Null]

\* GET /check-device-status: sqlite3, once the database is open, runs the query
\* (which fails when the table does not exist) and the route answers.
GetCheckDeviceStatus ==
    \E dbErr \in BOOLEAN :
        LET r == checkDeviceStatus(sensorData, dbErr \/ "SensorData" \notin tables) IN
        /\ db = "open"
        /\ resp' = IF r.err # Null
                   THEN [op |-> "GET /check-device-status", status |-> 500,
                         body |-> InternalError]
                   ELSE [op |-> "GET /check-device-status", status |-> 200,
                         body |-> r.result]
        /\ UNCHANGED <<sensorData, serialMessages, dbQueue, errlog, delivered, tables>>
        /\ UNCHANGED othersMqtt

StatusMessages == { DataMessage(JsNumber("21.5"), JsString("ON"), JsUndefined) }

NextStatus ==
    \/ Tick((MaxStatusSecs + 1) * TicksPerSec - 1)
    \/ OnMessage(StatusMessages, MaxStatusMsgs)
    \/ DbExec
    \/ GetCheckDeviceStatus

SpecStatus == Init /\ [][NextStatus]_vars

(* Claims about the device status. *)

StatusAnswered == resp.op = "GET /check-device-status" /\ resp.status = 200

\* Whole seconds from the stored timestamp of a row to now.
AgeOf(row) == (clock - row.timestamp * TicksPerSec) \div TicksPerSec

\* The reading with the highest id.
NewestReading ==
    CHOOSE row \in { sensorData[i] : i \in 1..Len(sensorData) } :
        \A i \in 1..Len(sensorData) : sensorData[i].id <= row.id

\* C5: with no reading the status is Offline and lastSeen is 'N/A'; otherwise
\* lastSeen is the timestamp of the reading with the highest id and the status is
\* Online exactly when that reading is at most 30 whole seconds old.
C5_StatusByAge ==
    StatusAnswered =>
        IF sensorData = <<>>
        THEN resp.body = [status |-> "Offline", lastSeen |-> NotSeen]
        ELSE /\ resp.body.lastSeen = LastSeen(NewestReading.timestamp)
             /\ resp.body.status \in {"Online", "Offline"}
             /\ resp.body.status = "Online" <=> AgeOf(NewestReading) <= 30

\* C5's case: the newest of two readings is exactly 30 seconds old and the
\* answer is Online.
C5_Witness ==
    /\ StatusAnswered
    /\ Len(sensorData) = 2
    /\ sensorData[1].timestamp < sensorData[2].timestamp
    /\ AgeOf(sensorData[2]) = 30
    /\ resp.body.status = "Online"

----------------------------------------------------------------------------
(* The serial log: fetchLatestSerialMessages and GET /latest-serial-messages. *)

\* the LIMIT of the query
SerialLimit == 10

RECURSIVE OrderByIdAsc(_)
\* The rows of a set, lowest id first.
OrderByIdAsc(rows) ==
    IF rows = {} THEN <<>>
    ELSE LET first == CHOOSE r \in rows : \A q \in rows : r.id <= q.id IN
         <<first>> \o OrderByIdAsc(rows \ {first})

RECURSIVE OrderByIdDesc(_)
\* ORDER BY id DESC: the rows of a set, highest id first.
OrderByIdDesc(rows) ==
    IF rows = {} THEN <<>>
    ELSE LET first == CHOOSE r \in rows : \A q \in rows : q.id <= r.id IN
         <<first>> \o OrderByIdDesc(rows \ {first})

\* LIMIT n
Limit(rows, n) == SubSeq(rows, 1, IF Len(rows) < n THEN Len(rows) ELSE n)

\* fetchLatestSerialMessages(db, callback): what the callback receives.
fetchLatestSerialMessages(table, dbErr) ==
    IF dbErr
    THEN [rows |-> Null, err |-> SqliteError]
    ELSE [rows |-> Limit(OrderByIdDesc({ table[i] : i \in 1..Len(table) }), SerialLimit),
          err |-> Null]

FetchSerialFailed == "Failed to fetch latest serial messages"

\* GET /latest-serial-messages: sqlite3 runs the query and the route answers.
GetLatestSerialMessages ==
    \E dbErr \in BOOLEAN :
        LET r == fetchLatestSerialMessages(serialMessages, dbErr) IN
        /\ resp' = IF r.err # Null
                   THEN [op |-> "GET /latest-serial-messages", status |-> 500,
                         body |-> FetchSerialFailed]
                   ELSE [op |-> "GET /latest-serial-messages", status |-> 200,
                         body |-> r.rows]
        /\ UNCHANGED <<sensorData, serialMessages, dbQueue, errlog, delivered, tables>>
        /\ UNCHANGED othersMqtt

SerialLogMessages == { SerialMessage(JsString("boot ok")) }

NextSerial ==
    \/ OnMessage(SerialLogMessages, MaxSerialMsgs)
    \/ DbExec
    \/ GetLatestSerialMessages

SpecSerial == Init /\ [][NextSerial]_vars

(* Claims about the serial log. *)

SerialAnswered == resp.op = "GET /latest-serial-messages" /\ resp.status = 200

\* C9: the answer holds min(10, number of stored rows) rows, they are rows of the
\* table, every row left out has a lower id than every row returned, and the ids
\* strictly descend.
C9_LatestTenNewestFirst ==
    SerialAnswered =>
        LET rows == resp.body
            n == Len(serialMessages) IN
        /\ Len(rows) = IF n < 10 THEN n ELSE 10
        /\ \A i \in 1..Len(rows) : \E k \in 1..n : serialMessages[k] = rows[i]
        /\ \A i, j \in 1..Len(rows) : i < j => rows[i].id > rows[j].id
        /\ \A k \in 1..n :
              (\A i \in 1..Len(rows) : rows[i] # serialMessages[k])
              => \A i \in 1..Len(rows) : serialMessages[k].id < rows[i].id

\* C9's case: twelve rows are stored and the ten newest are returned.
C9_Witness ==
    /\ SerialAnswered
    /\ Len(serialMessages) = 12
    /\ Len(resp.body) = 10
    /\ resp.body[1].id = 12 /\ resp.body[10].id = 3

----------------------------------------------------------------------------
(* Start-up: app.js, initializeDatabase of database/connection.js and the       *)
(* subscription of handleMQTTMessages.                                          *)

\* MQTT messages the start-up specification delivers
MaxBootMsgs == 2

BootMessages ==
    { DataMessage(JsNumber("21.5"), JsString("ON"), JsUndefined),
      SerialMessage(JsString("boot ok")) }

\* The state app.js leaves when it has been evaluated: the database is being
\* opened, on a data.db that is new or that an earlier run has left with its
\* tables; client.subscribe has been called once and the 'message' listener is
\* registered; nothing has been answered by sqlite3 or by the broker.
InitBoot ==
    /\ db = "opening"
    /\ tables \in {{}, AllTables}
    /\ subscription = "pending"
    /\ broker = "idle"
    /\ clock = 0
    /\ stableFw = <<>>
    /\ sensorData = <<>>
    /\ serialMessages = <<>>
    /\ users = <<>>
    /\ bucket = {}
    /\ dbQueue = <<>>
    /\ errlog = <<>>
    /\ delivered = <<>>
    /\ reg = [r \in RegSlots |-> IdleReg]
    /\ upl = [u \in UploadSlots |-> IdleUpload]
    /\ resp = NoResp

OpenFailed == "Failed to open database:"
CantOpen == "SQLITE_CANTOPEN"

\* The four db.run calls of the open callback, in the order of the source.
CreateStatements ==
    << [sql |-> CreateTable \o "SensorData", params |-> <<>>],
       [sql |-> CreateTable \o "SerialMessages", params |-> <<>>],
       [sql |-> CreateTable \o "LatestStableFirmware", params |-> <<>>],
       [sql |-> CreateTable \o "users", params |-> <<>>] >>

\* The callback of new sqlite3.Database('data.db', ...): it logs the failure, or
\* hands the four CREATE TABLE statements to sqlite3 and returns.  Statements
\* handed over before the database was open are run from then on as well.
OpenCallback ==
    \E err \in {Null, CantOpen} :
        /\ db = "opening"
        /\ IF err # Null
           THEN /\ db' = "failed"
                /\ errlog' = Append(errlog, [text |-> OpenFailed, err |-> err])
                /\ UNCHANGED dbQueue
           ELSE /\ db' = "open"
                /\ dbQueue' = dbQueue \o CreateStatements
                /\ UNCHANGED errlog
        /\ resp' = NoResp
        /\ UNCHANGED <<clock, stableFw, sensorData, serialMessages, users, bucket,
                       delivered, reg, upl, tables, subscription, broker>>

\* The broker receives the SUBSCRIBE packet and grants or refuses the topic; from
\* then on it may publish matching messages, before its SUBACK has arrived.
BrokerSubscribe ==
    \E granted \in BOOLEAN :
        /\ subscription = "pending"
        /\ broker = "idle"
        /\ broker' = IF granted THEN "granted" ELSE "refused"
        /\ resp' = NoResp
        /\ UNCHANGED <<clock, stableFw, sensorData, serialMessages, users, bucket,
                       dbQueue, errlog, delivered, reg, upl, db, tables, subscription>>

SubscribeFailed == "Failed to subscribe to topic:"

\* The callback handleMQTTMessages passes to client.subscribe: it logs either
\* way and calls nothing.
onSubscribe(err) ==
    IF err # Null
    THEN [subscription |-> "failed",
          errors |-> <<[text |-> SubscribeFailed, err |-> err]>>]
    ELSE [subscription |-> "subscribed", errors |-> <<>>]

\* The subscription settles: the SUBACK of the broker arrives, or the connection
\* is lost before the broker has seen the packet.
SubscribeCallback ==
    LET s == onSubscribe(IF broker = "granted" THEN Null
                         ELSE IF broker = "refused" THEN "Subscribe error"
                         ELSE "Connection closed") IN
    /\ subscription = "pending"
    /\ subscription' = s.subscription
    /\ errlog' = errlog \o s.errors
    /\ resp' = NoResp
    /\ UNCHANGED <<clock, stableFw, sensorData, serialMessages, users, bucket,
                   dbQueue, delivered, reg, upl, db, tables, broker>>

NextBoot ==
    \/ OpenCallback
    \/ BrokerSubscribe
    \/ SubscribeCallback
    \/ OnMessage(BootMessages, MaxBootMsgs)
    \/ DbExec
    \/ GetCheckDeviceStatus

SpecBoot == InitBoot /\ [][NextBoot]_vars

(* Claims about the start-up. *)

\* The CREATE TABLE statements that wait in the queue.
PendingCreates ==
    { i \in 1..Len(dbQueue) :
        dbQueue[i].sql \in {"CREATE TABLE IF NOT EXISTS SensorData",
                            "CREATE TABLE IF NOT EXISTS SerialMessages",
                            "CREATE TABLE IF NOT EXISTS LatestStableFirmware",
                            "CREATE TABLE IF NOT EXISTS users"} }

\* sqlite3 executes an INSERT of the dispatcher in this step.
InsertRuns ==
    /\ Len(dbQueue') = Len(dbQueue) - 1
    /\ Cardinality(PendingCreates') = Cardinality(PendingCreates)

\* sqlite3 executes the query of an HTTP handler in this step.
QueryRuns == resp'.op = "GET /check-device-status" /\ resp' # resp

\* C15: whenever sqlite3 executes an INSERT of the dispatcher or the query of an
\* HTTP handler, the four tables SensorData, SerialMessages, LatestStableFirmware
\* and users have been created.
C15_TablesBeforeStatements ==
    [][ (InsertRuns \/ QueryRuns)
        => tables = {"SensorData", "SerialMessages", "LatestStableFirmware", "users"} ]_vars

\* The listener hands a statement to sqlite3 for a message in this step.
Dispatches == Len(delivered') = Len(delivered) + 1 /\ Len(dbQueue') > Len(dbQueue)

\* C16: the dispatcher starts unsubscribed; the one subscription attempt settles
\* once, as subscribed only when the broker granted the topic, and a settled
\* subscription, failed or not, is never attempted again; a message is dispatched
\* to storage only while the dispatcher is subscribed.
C16_DispatchOnlyWhileSubscribed ==
    /\ subscription # "subscribed"
    /\ [][ /\ subscription # "pending" => subscription' = subscription
           /\ (subscription = "pending" /\ subscription' = "subscribed")
                 => broker = "granted"
           /\ Dispatches => subscription = "subscribed" ]_vars

----------------------------------------------------------------------------
(* The writers of the four tables together: the dispatcher's inserts, the       *)
(* stable-firmware pointer and the registration.                                *)

\* operations (messages, pointer rows, users) the table specification starts
MaxTableOps == 2

TableMessages ==
    { DataMessage(JsNumber("21.5"), JsString("ON"), JsUndefined),
      SerialMessage(JsString("boot ok")) }

\* What the operations started so far have left.
TableOps == Len(stableFw) + Len(users) + Len(delivered)

\* One registration request at a time is enough here: a request in flight next
\* to another is the subject of SpecReg.
NextTables ==
    \/ /\ TableOps < MaxTableOps
       /\ \/ OnMessage(TableMessages, MaxTableOps)
          \/ GetSetStableLatestVersion
          \/ PostRegister(1)
    \/ DbExec
    \/ RegisterFindCallback(1)
    \/ RegisterCreateCallback(1)

SpecTables == Init /\ [][NextTables]_vars

(* Claims about the tables. *)

\* From table old to table new no row was changed or removed, and at most one
\* row was added, with an id above every id of old.
AppendOnly(old, new) ==
    /\ Len(new) \in {Len(old), Len(old) + 1}
    /\ \A i \in 1..Len(old) : new[i] = old[i]
    /\ Len(new) = Len(old) + 1 => \A i \in 1..Len(old) : new[Len(new)].id > old[i].id

\* C17: every step leaves the rows of SensorData, SerialMessages,
\* LatestStableFirmware and users as they are and adds at most one row to a
\* table, with an id greater than every id the table holds; a set answered 200, a
\* registration answered 201 and an INSERT of the dispatcher that sqlite3 runs
\* without logging a failure each add exactly one row.
C17_TablesAppendOnly ==
    [][ /\ AppendOnly(sensorData, sensorData')
        /\ AppendOnly(serialMessages, serialMessages')
        /\ AppendOnly(stableFw, stableFw')
        /\ AppendOnly(users, users')
        /\ (resp' # resp /\ resp'.op = "GET /set-stable-latest-version"
               /\ resp'.status = 200)
              => Len(stableFw') = Len(stableFw) + 1
        /\ (reg[1].pc = "create" /\ reg'[1].pc = "done" /\ reg'[1].status = 201)
              => Len(users') = Len(users) + 1
        /\ (Len(dbQueue') = Len(dbQueue) - 1 /\ errlog' = errlog)
              => Len(sensorData') + Len(serialMessages')
                   = Len(sensorData) + Len(serialMessages) + 1 ]_vars

\* C17's case: the pointer table holds two rows with ascending ids next to a
\* registered user.
C17_Witness ==
    /\ Len(stableFw) = 2
    /\ stableFw[1].id < stableFw[2].id
    /\ stableFw[1].firmwareVersion # stableFw[2].firmwareVersion
    /\ Len(users) = 1

----------------------------------------------------------------------------
(* The responses of the HTTP handlers: routes/index.js and routes/auth.js.      *)
(* Each operator follows one handler or callback along its path and gives the   *)
(* responses it sends on res, in order, for what the request carries and what   *)
(* storage hands to the callback.                                               *)

\* res.status(status).json(body), res.json(body) and res.send(body).
Send(status, body) == <<[status |-> status, body |-> body]>>

\* What db.get can hand to its callback: an error, no row, a row.
GetOutcomes ==
    { [err |-> SqliteError, row |-> NoRow],
      [err |-> Null, row |-> NoRow],
      [err |-> Null, row |-> [kind |-> "row"]] }

\* GET /get-sensor-data: fetchLastRecord calls back with (null, err) or
\* (row, null), and the route answers in an if / else if / else.
getSensorData(o) ==
    IF o.err # Null THEN Send(500, "Internal Server Error")
    ELSE IF o.row # NoRow THEN Send(200, "row")
    ELSE Send(404, "No records found")

\* GET /check-device-status, for what checkDeviceStatus calls back with.
getCheckDeviceStatus(r) ==
    IF r.err # Null THEN Send(500, "Internal Server Error")
    ELSE Send(200, r.result)

\* GET /latest-serial-messages, for what fetchLatestSerialMessages calls back with.
getLatestSerialMessages(r) ==
    IF r.err # Null THEN Send(500, FetchSerialFailed)
    ELSE Send(200, r.rows)

\* POST /firmware-update: the two validations return their answer; the awaited
\* upload either throws into the catch block or is followed by res.json.
postFirmwareUpdate(file, firmwareVersion, uploadThrows) ==
    IF file = NoFile \/ extname(file.originalname) # DotBin
    THEN Send(400, BinMsg)
    ELSE IF ~validateFirmwareVersion(firmwareVersion)
    THEN Send(400, InvalidFormat)
    ELSE IF uploadThrows
    THEN Send(500, UploadFailedMsg)
    ELSE Send(200, UploadedMsg)

\* GET /set-stable-latest-version: the validation returns its answer; the
\* callback of setLatestStableFirmwareVersion returns one in either branch.
getSetStableLatestVersion(firmwareVersion, dbErr) ==
    IF ~Truthy(firmwareVersion) \/ ~validateFirmwareVersion(firmwareVersion)
    THEN Send(400, InvalidFormat)
    ELSE LET r == setLatestStableFirmwareVersion(<<>>, firmwareVersion, dbErr) IN
         IF r.err # Null THEN Send(500, r.err) ELSE Send(200, r.result)

\* GET /firmware-versions: res.json in the try block, the 500 in the catch block.
getFirmwareVersions(listingThrows) ==
    IF listingThrows THEN Send(500, "Failed to fetch firmware versions")
    ELSE Send(200, "versions")

\* GET /latest-stable-firmware
getLatestStableFirmware(o) ==
    LET a == latestStableFirmwareAnswer(o.err, o.row) IN Send(a.status, a.body)

\* GET /test
getTest == Send(200, "Hello, this is a test endpoint!")

\* The callback of createUser in POST /register.
registerCreateCallback(err) ==
    IF err # Null THEN Send(500, InternalError) ELSE Send(201, Registered)

\* The callback of findUserByUsername with its answers not returned: each test
\* answers and the function goes on to the next statement.
registerFindCallbackNoReturn(err, user, createErr) ==
    (IF err # Null THEN Send(500, "Internal Server Error") ELSE <<>>)
        \o (IF user # NoRow THEN Send(400, "Username already exists") ELSE <<>>)
        \o (IF createErr # "null" THEN Send(500, "Internal Server Error")
            ELSE Send(201, "User registered successfully"))

\* The callback of findUserByUsername in POST /register: it returns the answer
\* for an error and for an existing user, and otherwise calls createUser, whose
\* callback receives createErr.
registerFindCallback(err, user, createErr) ==
    IF err # Null THEN Send(500, InternalError)
    ELSE IF user # NoRow THEN Send(400, UsernameExists)
    ELSE registerCreateCallback(createErr)

\* POST /register
postRegister(username, password, o, createErr) ==
    IF ~validateUsername(username) THEN Send(400, UsernameMsg)
    ELSE IF ~validatePassword(password) THEN Send(400, PasswordMsg)
    ELSE registerFindCallback(o.err, o.row, createErr)

\* POST /login: the callback of findUserByUsername returns the answer for an
\* error, for no user and for another password, and otherwise sends the token.
postLogin(o, passwordMatches) ==
    IF o.err # Null THEN Send(500, InternalError)
    ELSE IF o.row = NoRow THEN Send(400, "Invalid credentials")
    ELSE IF ~passwordMatches THEN Send(400, "Invalid credentials")
    ELSE Send(200, "token")

\* A request was handled: the responses its handler sent.
Handled(op, input, sent) ==
    /\ resp' = [op |-> op, input |-> input, sent |-> sent]
    /\ UNCHANGED <<clock, stableFw, sensorData, serialMessages, users, bucket,
                   dbQueue, errlog, delivered, reg, upl, db, tables, subscription,
                   broker>>

HandleGetSensorData ==
    \E o \in GetOutcomes : Handled("GET /get-sensor-data", o, getSensorData(o))

HandleGetCheckDeviceStatus ==
    \E table \in {<<>>, <<[id |-> 1, timestamp |-> 0]>>}, dbErr \in BOOLEAN :
        Handled("GET /check-device-status", <<table, dbErr>>,
                getCheckDeviceStatus(checkDeviceStatus(table, dbErr)))

HandleGetLatestSerialMessages ==
    \E dbErr \in BOOLEAN :
        Handled("GET /latest-serial-messages", dbErr,
                getLatestSerialMessages(fetchLatestSerialMessages(<<>>, dbErr)))

HandlePostFirmwareUpdate ==
    \E file \in FileInputs, firmwareVersion \in UploadVersionInputs,
       uploadThrows \in BOOLEAN :
        Handled("POST /firmware-update", <<file, firmwareVersion, uploadThrows>>,
                postFirmwareUpdate(file, firmwareVersion, uploadThrows))

HandleGetSetStableLatestVersion ==
    \E firmwareVersion \in VersionInputs, dbErr \in BOOLEAN :
        Handled("GET /set-stable-latest-version", <<firmwareVersion, dbErr>>,
                getSetStableLatestVersion(firmwareVersion, dbErr))

HandleGetFirmwareVersions ==
    \E listingThrows \in BOOLEAN :
        Handled("GET /firmware-versions", listingThrows,
                getFirmwareVersions(listingThrows))

HandleGetLatestStableFirmware ==
    \E o \in { [err |-> SqliteError, row |-> NoRow],
                [err |-> Null, row |-> NoRow],
                [err |-> Null, row |-> [kind |-> "row", firmwareVersion |-> V100]],
                [err |-> Null, row |-> [kind |-> "row", firmwareVersion |-> <<>>]] } :
        Handled("GET /latest-stable-firmware", o, getLatestStableFirmware(o))

HandleGetTest == Handled("GET /test", Null, getTest)

HandlePostRegister ==
    \E username \in UsernameInputs \cup {Undefined},
       password \in PasswordInputs \cup {Undefined},
       o \in GetOutcomes, createErr \in {Null, SqliteError, SqliteConstraint} :
        Handled("POST /register", <<username, password, o, createErr>>,
                postRegister(username, password, o, createErr))

HandlePostLogin ==
    \E o \in GetOutcomes, passwordMatches \in BOOLEAN :
        Handled("POST /login", <<o, passwordMatches>>, postLogin(o, passwordMatches))

NextHttp ==
    \/ HandleGetSensorData
    \/ HandleGetCheckDeviceStatus
    \/ HandleGetLatestSerialMessages
    \/ HandlePostFirmwareUpdate
    \/ HandleGetSetStableLatestVersion
    \/ HandleGetFirmwareVersions
    \/ HandleGetLatestStableFirmware
    \/ HandleGetTest
    \/ HandlePostRegister
    \/ HandlePostLogin

SpecHttp == Init /\ [][NextHttp]_vars

(* Claims about the responses. *)

====
